---------------------------- MODULE Spec2Model ----------------------------
(***************************************************************************)
(* A model of generate_html_report.py: the SemgrepReportGenerator class    *)
(* (template loading, JSON parsing, finding extraction, severity           *)
(* aggregation, rendering, saving) and the main() entry point.             *)
(*                                                                         *)
(* JSON objects are functions from key strings to values (a key that is    *)
(* absent is not in the DOMAIN), JSON lists are sequences, and a string    *)
(* that the program transforms (a severity level) is a sequence of         *)
(* one-character strings.  A Python call either returns a value or raises: *)
(* Return(v) and Raise(e).  Optional[str] is <<>> (None) or <<text>>.      *)
(***************************************************************************)
EXTENDS Integers, Sequences, FiniteSets, TLC

VARIABLES
    call,           \* the method a harness applies ("idle" before the call)
    arg,            \* its argument
    ret,            \* its outcome: Return(v) or Raise(e) (NoOutcome before)
    pc,             \* main(): the statement the process is at
    env,            \* main(): argv and the file system the run meets
    generator,      \* the SemgrepReportGenerator instance ([template |-> ..])
    semgrep_data,   \* main(): local variable
    findings,       \* main(): local variable
    report_data,    \* main(): local variable
    html_content,   \* main(): local variable
    output_file,    \* the content of the output path (NotWritten: untouched)
    stages,         \* main(): the pipeline stages executed so far, in order
    exit_status     \* main(): -1 while running, else the process exit status

vars == <<call, arg, ret, pc, env, generator, semgrep_data, findings,
          report_data, html_content, output_file, stages, exit_status>>

fnVars == <<call, arg, ret>>

mainVars == <<pc, env, generator, semgrep_data, findings, report_data,
              html_content, output_file, stages, exit_status>>

-----------------------------------------------------------------------------
(* Bounds of the model *)

MaxRuns == 2

MaxResults == 2

MaxFindings == 4

MaxLocations == 2

MaxFlows == 2

-----------------------------------------------------------------------------
(* Python values *)

EmptyDict == [k \in {} |-> 0]

None == <<>>

Some(v) == <<v>>

Return(v) == [raised |-> FALSE, value |-> v]

Raise(e) == [raised |-> TRUE, exc |-> e]

NoOutcome == [raised |-> FALSE, pending |-> TRUE]

\* dict.get(key, default)
Get(d, k, default) == IF k \in DOMAIN d THEN d[k] ELSE default

SeqsUpTo(S, n) == UNION {[1..k -> S] : k \in 0..n}

\* str(text) as the sequence of its characters
Lowercase == <<"a","b","c","d","e","f","g","h","i","j","k","l","m",
               "n","o","p","q","r","s","t","u","v","w","x","y","z">>

Uppercase == <<"A","B","C","D","E","F","G","H","I","J","K","L","M",
               "N","O","P","Q","R","S","T","U","V","W","X","Y","Z">>

IndexIn(c, alphabet) ==
    IF \E i \in 1..Len(alphabet) : alphabet[i] = c
    THEN CHOOSE i \in 1..Len(alphabet) : alphabet[i] = c
    ELSE 0

\* str.upper()
str_upper(s) ==
    [i \in 1..Len(s) |->
        IF IndexIn(s[i], Lowercase) > 0
        THEN Uppercase[IndexIn(s[i], Lowercase)] ELSE s[i]]

\* str.lower()
str_lower(s) ==
    [i \in 1..Len(s) |->
        IF IndexIn(s[i], Uppercase) > 0
        THEN Lowercase[IndexIn(s[i], Uppercase)] ELSE s[i]]

-----------------------------------------------------------------------------
(* SemgrepReportGenerator._extract_code_snippet *)

\* for location in thread['locations']: the first with a location.snippet
RECURSIVE SnippetInLocations(_)
SnippetInLocations(locations) ==
    IF Len(locations) = 0 THEN None
    ELSE LET location == Head(locations) IN
         IF "location" \in DOMAIN location
            /\ "snippet" \in DOMAIN location["location"]
         THEN Some(Get(location["location"]["snippet"], "text", ""))
         ELSE SnippetInLocations(Tail(locations))

\* for thread in flow['threadFlows']
RECURSIVE SnippetInThreads(_)
SnippetInThreads(threads) ==
    IF Len(threads) = 0 THEN None
    ELSE LET thread == Head(threads)
             found  == IF "locations" \in DOMAIN thread
                          /\ Len(thread["locations"]) > 0
                       THEN SnippetInLocations(thread["locations"])
                       ELSE None
         IN IF found # None THEN found ELSE SnippetInThreads(Tail(threads))

\* for flow in result['codeFlows']
RECURSIVE SnippetInFlows(_)
SnippetInFlows(flows) ==
    IF Len(flows) = 0 THEN None
    ELSE LET flow  == Head(flows)
             found == IF "threadFlows" \in DOMAIN flow
                         /\ Len(flow["threadFlows"]) > 0
                      THEN SnippetInThreads(flow["threadFlows"])
                      ELSE None
         IN IF found # None THEN found ELSE SnippetInFlows(Tail(flows))

\* A slip that would consult only the first code flow.
FirstFlowOnlySnippet(result) ==
    IF "codeFlows" \in DOMAIN result /\ Len(result["codeFlows"]) > 0
    THEN SnippetInFlows(<<Head(result["codeFlows"])>>)
    ELSE None

\* _extract_code_snippet(result): Optional[str]
ExtractCodeSnippet(result) ==
    IF "codeFlows" \in DOMAIN result /\ Len(result["codeFlows"]) > 0
    THEN SnippetInFlows(result["codeFlows"])
    ELSE None

-----------------------------------------------------------------------------
(* SemgrepReportGenerator.extract_findings *)

\* result.get('locations', [{}])
LocationsOf(result) == Get(result, "locations", <<EmptyDict>>)

\* result.get('locations', [{}])[0].get('physicalLocation', {})
PhysicalLocation(result) ==
    Get(LocationsOf(result)[1], "physicalLocation", EmptyDict)

\* ....get('region', {}).get(key, 0)
RegionField(result, key) ==
    Get(Get(PhysicalLocation(result), "region", EmptyDict), key, 0)

\* A slip that would upper-case nothing.
LevelAsGiven(result) == Get(result, "level", <<"n","o","t","e">>)

\* result.get('level', 'note').upper()
LevelOf(result) == str_upper(Get(result, "level", <<"n","o","t","e">>))

\* the dict literal of lines 98-113; [0] of an empty list raises IndexError
BuildFinding(result) ==
    IF Len(LocationsOf(result)) = 0
    THEN Raise("IndexError")
    ELSE Return(
        [rule_id |-> Get(result, "ruleId", "Unknown Rule"),
         message |-> Get(Get(result, "message", EmptyDict), "text", "No message"),
         level   |-> LevelOf(result),
         path    |-> Get(Get(PhysicalLocation(result), "artifactLocation", EmptyDict),
                         "uri", "Unknown file"),
         start   |-> [line   |-> RegionField(result, "startLine"),
                      column |-> RegionField(result, "startColumn")],
         end     |-> [line   |-> RegionField(result, "endLine"),
                      column |-> RegionField(result, "endColumn")],
         code    |-> ExtractCodeSnippet(result),
         tags    |-> Get(result, "tags", <<>>)])

\* for result in run['results']: findings.append(finding)
RECURSIVE AppendResults(_, _)
AppendResults(acc, results) ==
    IF Len(results) = 0 THEN Return(acc)
    ELSE LET f == BuildFinding(Head(results)) IN
         IF f.raised THEN f
         ELSE AppendResults(Append(acc, f.value), Tail(results))

\* for run in semgrep_data['runs']: if 'results' in run
RECURSIVE AppendRuns(_, _)
AppendRuns(acc, runs) ==
    IF Len(runs) = 0 THEN Return(acc)
    ELSE LET run == Head(runs) IN
         IF "results" \in DOMAIN run
         THEN LET r == AppendResults(acc, run["results"]) IN
              IF r.raised THEN r ELSE AppendRuns(r.value, Tail(runs))
         ELSE AppendRuns(acc, Tail(runs))

\* extract_findings(semgrep_data)
ExtractFindings(data) ==
    IF DOMAIN data = {} \/ "runs" \notin DOMAIN data
    THEN Return(<<>>)
    ELSE AppendRuns(<<>>, data["runs"])

-----------------------------------------------------------------------------
(* SemgrepReportGenerator.generate_report_data *)

SeverityLevels ==
    {<<"h","i","g","h">>, <<"m","e","d","i","u","m">>, <<"l","o","w">>,
     <<"i","n","f","o">>}

\* A slip that would compare the level as stored, without lower-casing it.
BucketOfRawLevel(finding) == finding["level"]

\* level = finding['level'].lower()
BucketOf(finding) == str_lower(finding["level"])

\* severity_counts: the loop of lines 142-145, one increment per finding
\* whose lowered level is a key of the dict
RECURSIVE CountSeverities(_, _)
CountSeverities(counts, fs) ==
    IF Len(fs) = 0 THEN counts
    ELSE LET level == BucketOf(Head(fs)) IN
         CountSeverities(
            IF level \in DOMAIN counts
            THEN [counts EXCEPT ![level] = @ + 1] ELSE counts,
            Tail(fs))

\* generate_report_data(findings, repository_url, commit_sha) at time now
GenerateReportData(fs, repository_url, commit_sha, now) ==
    LET severity_counts ==
            CountSeverities([l \in SeverityLevels |-> 0], fs)
    IN [repository_url        |-> repository_url,
        commit_sha            |-> commit_sha,
        scan_date             |-> now,
        semgrep_version       |-> "Latest",
        total_findings        |-> Len(fs),
        high_severity_count   |-> severity_counts[<<"h","i","g","h">>],
        medium_severity_count |-> severity_counts[<<"m","e","d","i","u","m">>],
        low_severity_count    |-> severity_counts[<<"l","o","w">>],
        info_severity_count   |-> severity_counts[<<"i","n","f","o">>],
        findings              |-> fs]


-----------------------------------------------------------------------------
(* Files.  A path is missing, a directory, unreadable, or a file with text *)

Missing == [state |-> "missing", text |-> ""]

Directory == [state |-> "directory", text |-> ""]

Unreadable == [state |-> "unreadable", text |-> ""]

File(text) == [state |-> "file", text |-> text]

\* open(path, 'r'): the exception it raises, or the text it reads
OpenForReading(path) ==
    CASE path.state = "missing"    -> Raise("FileNotFoundError")
      [] path.state = "directory"  -> Raise("IsADirectoryError")
      [] path.state = "unreadable" -> Raise("PermissionError")
      [] path.state = "file"       -> Return(path.text)

(* json.load on the texts the model uses *)

SarifFull ==
    [ruleId |-> "rule-a", message |-> [text |-> "tainted"],
     level |-> <<"H","i","g","h">>,
     locations |-> <<[physicalLocation |->
         [artifactLocation |-> [uri |-> "a.py"],
          region |-> [startLine |-> 3, startColumn |-> 5,
                      endLine |-> 4, endColumn |-> 9]]]>>,
     tags |-> <<"security">>]

EmptyObjectText == "{}"

NoRunsText == "{\"version\": \"2.1.0\"}"

NoResultsText == "{\"runs\": []}"

FindingsText == "{\"runs\": [{\"results\": [{\"ruleId\": \"rule-a\", \"message\": {\"text\": \"tainted\"}, \"level\": \"High\", \"locations\": [{\"physicalLocation\": {\"artifactLocation\": {\"uri\": \"a.py\"}, \"region\": {\"startLine\": 3, \"startColumn\": 5, \"endLine\": 4, \"endColumn\": 9}}}], \"tags\": [\"security\"]}, {}]}, {\"results\": [{\"level\": \"info\"}]}]}"

EmptyLocationsText == "{\"runs\": [{\"results\": [{\"ruleId\": \"rule-c\", \"locations\": []}]}]}"

TruncatedText == "{\"runs\": ["

JsonLoad(text) ==
    CASE text = EmptyObjectText -> Return(EmptyDict)
      [] text = NoRunsText -> Return([version |-> "2.1.0"])
      [] text = NoResultsText -> Return([runs |-> <<>>])
      [] text = FindingsText ->
            Return([runs |-> <<[results |-> <<SarifFull, EmptyDict>>],
                               [results |-> <<[level |-> <<"i","n","f","o">>]>>]>>])
      [] text = EmptyLocationsText ->
            Return([runs |-> <<[results |->
                        <<[ruleId |-> "rule-c", locations |-> <<>>]>>]>>])
      [] OTHER -> Raise("JSONDecodeError")

JsonTexts ==
    {EmptyObjectText, NoRunsText, NoResultsText, FindingsText,
     EmptyLocationsText, TruncatedText, ""}

-----------------------------------------------------------------------------
(* SemgrepReportGenerator.parse_semgrep_output *)

\* A slip that would catch FileNotFoundError alone.
ParseCatchingNotFoundOnly(path) ==
    LET f == OpenForReading(path) IN
    IF f.raised
    THEN IF f.exc = "FileNotFoundError" THEN Return(EmptyDict) ELSE f
    ELSE JsonLoad(f.value)

\* parse_semgrep_output(json_file): FileNotFoundError and JSONDecodeError
\* are caught, any other exception propagates
ParseSemgrepOutput(path) ==
    LET f == OpenForReading(path)
        data == IF f.raised THEN f ELSE JsonLoad(f.value)
    IN IF data.raised /\ data.exc \in {"FileNotFoundError", "JSONDecodeError"}
       THEN Return(EmptyDict)
       ELSE data

-----------------------------------------------------------------------------
(* Templates: jinja2.Template on the texts the model uses *)

FallbackHtml == "<!DOCTYPE html> ... {{ total_findings }} ... {% for finding in findings %}"

GoodTemplate == "<p>{{ total_findings }} findings</p>"

BrokenSyntaxTemplate == "{% for finding in %}"

UndefinedCallTemplate == "{{ summarize(findings) }}"

\* Template(text): the template's syntax is checked when it is built
Template(text) ==
    IF text = BrokenSyntaxTemplate
    THEN Raise("TemplateSyntaxError")
    ELSE Return([source |-> text])

\* _get_fallback_template()
GetFallbackTemplate == Template(FallbackHtml)

\* A slip that would build the template from the path's text unguarded.
LoadTemplateUnguarded(path) ==
    LET f == OpenForReading(path) IN
    IF f.raised THEN f ELSE Template(f.value)

\* _load_template(): FileNotFoundError alone is caught
LoadTemplate(path) ==
    LET f == OpenForReading(path) IN
    IF f.raised
    THEN IF f.exc = "FileNotFoundError" THEN GetFallbackTemplate ELSE f
    ELSE Template(f.value)

\* __init__(template_path): the instance, or the exception of _load_template
Construct(path) ==
    LET t == LoadTemplate(path) IN
    IF t.raised THEN t ELSE Return([template |-> t.value])

Digits == <<"0","1","2","3","4","5","6","7","8","9">>

\* str(n) of a natural number, as {{ n }} renders it
RECURSIVE IntToStr(_)
IntToStr(n) ==
    IF n < 10 THEN Digits[n + 1]
    ELSE IntToStr(n \div 10) \o Digits[(n % 10) + 1]

\* one <div class="finding ..."> of the fallback template; an attribute of
\* an undefined value raises
RenderFinding(finding) ==
    IF ~ {"level", "start"} \subseteq DOMAIN finding
    THEN Raise("UndefinedError")
    ELSE Return(
        [class    |-> str_lower(finding["level"]),
         rule_id  |-> Get(finding, "rule_id", ""),
         severity |-> finding["level"],
         message  |-> Get(finding, "message", ""),
         file     |-> Get(finding, "path", ""),
         line     |-> IF "line" \in DOMAIN finding["start"]
                      THEN IntToStr(finding["start"]["line"]) ELSE "",
         code     |-> Get(finding, "code", None)])

RECURSIVE RenderFindings(_, _)
RenderFindings(divs, fs) ==
    IF Len(fs) = 0 THEN Return(divs)
    ELSE LET d == RenderFinding(Head(fs)) IN
         IF d.raised THEN d
         ELSE RenderFindings(Append(divs, d.value), Tail(fs))

\* the fallback template rendered: the document's variable parts
RenderFallback(data) ==
    LET divs == RenderFindings(<<>>, Get(data, "findings", <<>>)) IN
    IF divs.raised THEN divs
    ELSE Return(
        [title     |-> "Semgrep Security Scan Report",
         generated |-> Get(data, "scan_date", ""),
         total     |-> IF "total_findings" \in DOMAIN data
                       THEN IntToStr(data["total_findings"]) ELSE "",
         divs      |-> divs.value])

\* self.template.render(**report_data)
Render(template, data) ==
    CASE template.source = FallbackHtml -> RenderFallback(data)
      [] template.source = GoodTemplate ->
            Return([body |-> IF "total_findings" \in DOMAIN data
                             THEN IntToStr(data["total_findings"]) ELSE ""])
      [] template.source = UndefinedCallTemplate -> Raise("UndefinedError")

ErrorHtml(e) == [error |-> "Error generating report", description |-> e]

\* A slip that would let the rendering error through.
GenerateHtmlUncaught(template, data) == Render(template, data)

\* generate_html(report_data): except Exception
GenerateHtml(template, data) ==
    LET r == Render(template, data) IN
    IF r.raised THEN Return(ErrorHtml(r.exc)) ELSE r

-----------------------------------------------------------------------------
(* SemgrepReportGenerator.save_report *)

NotWritten == [written |-> FALSE]

\* save_report(html_content, output_file): the value returned and the file
\* left behind.  The directory may refuse the open, or the device the write.
SaveReport(html, target, current) ==
    CASE target = "writable" ->
            [returned |-> TRUE, file |-> [written |-> TRUE, content |-> html]]
      [] target = "unwritable" ->
            [returned |-> FALSE, file |-> current]
      [] target = "disk_full" ->
            [returned |-> FALSE, file |-> [written |-> TRUE, content |-> EmptyDict]]

-----------------------------------------------------------------------------
(* Inputs: analyzer results in the input file format *)

Region(sl, sc, el, ec) ==
    [startLine |-> sl, startColumn |-> sc, endLine |-> el, endColumn |-> ec]

FullLocation(uri, region) ==
    [physicalLocation |-> [artifactLocation |-> [uri |-> uri], region |-> region]]

SnippetFlows(text) ==
    <<[threadFlows |-> <<[locations |->
        <<[location |-> [snippet |-> [text |-> text]]]>>]>>]>>

\* every way a level of the locations chain can be absent, and two full ones
LocationsChoices ==
    {EmptyDict,
     [locations |-> <<>>],
     [locations |-> <<EmptyDict>>],
     [locations |-> <<[physicalLocation |-> EmptyDict]>>],
     [locations |-> <<[physicalLocation |->
                        [artifactLocation |-> EmptyDict, region |-> EmptyDict]]>>],
     [locations |-> <<[physicalLocation |->
                        [artifactLocation |-> [uri |-> "a.py"]]]>>],
     [locations |-> <<[physicalLocation |->
                        [region |-> [startLine |-> 3, endLine |-> 4]]]>>],
     [locations |-> <<FullLocation("a.py", Region(3, 5, 4, 9))>>],
     [locations |-> <<FullLocation("a.py", Region(3, 5, 4, 9)),
                      FullLocation("b.py", Region(7, 1, 8, 2))>>]}

RuleIdChoices == {EmptyDict, [ruleId |-> "rule-a"]}

MessageChoices ==
    {EmptyDict, [message |-> EmptyDict], [message |-> [text |-> "tainted"]]}

LevelChoices ==
    {EmptyDict, [level |-> <<"e","r","r","o","r">>],
     [level |-> <<"H","i","g","h">>]}

CodeFlowChoices == {EmptyDict, [codeFlows |-> SnippetFlows("x = 1")]}

TagChoices == {EmptyDict, [tags |-> <<"security">>]}

ResultShapes ==
    {a @@ b @@ c @@ d @@ e @@ f :
        a \in RuleIdChoices, b \in MessageChoices, c \in LevelChoices,
        d \in LocationsChoices, e \in CodeFlowChoices, f \in TagChoices}

\* three results told apart by their rule: all fields absent but the rule,
\* all present, and an empty locations list
OrderedResults ==
    {[ruleId |-> "rule-b"],
     [ruleId |-> "rule-a", message |-> [text |-> "tainted"],
      level |-> <<"H","i","g","h">>,
      locations |-> <<FullLocation("a.py", Region(3, 5, 4, 9))>>,
      codeFlows |-> SnippetFlows("x = 1"), tags |-> <<"security">>],
     [ruleId |-> "rule-c", locations |-> <<>>]}

RunChoices ==
    {[tool |-> "semgrep"]}
    \cup {[results |-> rs] : rs \in SeqsUpTo(OrderedResults, MaxResults)}

\* parsed input objects: empty, without runs, with runs
ExtractInputs ==
    {EmptyDict, [version |-> "2.1.0"]}
    \cup {[runs |-> rs] : rs \in SeqsUpTo(RunChoices, MaxRuns)}
    \cup {[runs |-> <<[results |-> <<r>>]>>] : r \in ResultShapes}

(* Inputs: code flows *)

SnippetLocationChoices ==
    {EmptyDict,
     [location |-> EmptyDict],
     [location |-> [snippet |-> EmptyDict]],
     [location |-> [snippet |-> [text |-> "A"]]],
     [location |-> [snippet |-> [text |-> "B"]]]}

ThreadChoices ==
    {EmptyDict}
    \cup {[locations |-> ls] : ls \in SeqsUpTo(SnippetLocationChoices, MaxLocations)}

SmallThreads ==
    {EmptyDict,
     [locations |-> <<[location |-> EmptyDict]>>],
     [locations |-> <<[location |-> [snippet |-> EmptyDict]]>>],
     [locations |-> <<[location |-> [snippet |-> [text |-> "A"]]]>>]}

FlowChoices ==
    {EmptyDict, [threadFlows |-> <<>>]}
    \cup {[threadFlows |-> <<t>>] : t \in ThreadChoices}
    \cup {[threadFlows |-> <<t, u>>] : t \in SmallThreads, u \in SmallThreads}

SmallFlows ==
    {EmptyDict,
     [threadFlows |-> <<[locations |-> <<[location |-> EmptyDict]>>]>>],
     [threadFlows |-> <<[locations |-> <<[location |-> [snippet |-> EmptyDict]]>>]>>],
     [threadFlows |-> <<[locations |-> <<[location |-> [snippet |-> [text |-> "A"]]]>>]>>],
     [threadFlows |-> <<[locations |-> <<[location |-> [snippet |-> [text |-> "B"]]]>>]>>]}

SnippetInputs ==
    {EmptyDict, [ruleId |-> "rule-a"]}
    \cup {[codeFlows |-> <<f>>] : f \in FlowChoices}
    \cup {[codeFlows |-> fs] : fs \in SeqsUpTo(SmallFlows, MaxFlows)}

(* Inputs: finding sequences *)

ReportLevels ==
    {<<"H","I","G","H">>, <<"h","i","g","h">>, <<"M","e","d","i","u","m">>,
     <<"b","o","g","u","s">>, <<"L","O","W">>, <<"I","N","F","O">>,
     <<"E","R","R","O","R">>}

FindingWithLevel(level) ==
    [BuildFinding([ruleId |-> "rule-a"]).value EXCEPT !["level"] = level]

ReportFindings == {FindingWithLevel(l) : l \in ReportLevels}

ReportInputs ==
    [findings : SeqsUpTo(ReportFindings, MaxFindings),
     repository_url : {"Unknown", "https://example.org/repo.git"},
     commit_sha : {"Unknown"},
     now : {"2026-01-01 00:00:00 UTC", "2026-01-01 00:00:01 UTC"}]

-----------------------------------------------------------------------------
(* The entry point's state while only one method is exercised *)

MainIdle ==
    /\ pc = "idle"
    /\ generator = EmptyDict
    /\ semgrep_data = EmptyDict
    /\ findings = <<>>
    /\ report_data = EmptyDict
    /\ html_content = EmptyDict
    /\ output_file = NotWritten
    /\ stages = <<>>
    /\ exit_status = -1

(* extract_findings applied to a parsed input object *)

InitExtract ==
    /\ call = "idle" /\ arg \in ExtractInputs /\ ret = NoOutcome
    /\ env = EmptyDict
    /\ MainIdle

CallExtractFindings ==
    /\ call = "idle"
    /\ call' = "extract_findings"
    /\ ret' = ExtractFindings(arg)
    /\ UNCHANGED <<arg, mainVars>>

SpecExtract == InitExtract /\ [][CallExtractFindings]_vars

(* _extract_code_snippet applied to a result *)

InitSnippet ==
    /\ call = "idle" /\ arg \in SnippetInputs /\ ret = NoOutcome
    /\ env = EmptyDict
    /\ MainIdle

CallExtractCodeSnippet ==
    /\ call = "idle"
    /\ call' = "_extract_code_snippet"
    /\ ret' = Return(ExtractCodeSnippet(arg))
    /\ UNCHANGED <<arg, mainVars>>

SpecSnippet == InitSnippet /\ [][CallExtractCodeSnippet]_vars

(* generate_report_data applied to a finding sequence *)

InitReport ==
    /\ call = "idle" /\ arg \in ReportInputs /\ ret = NoOutcome
    /\ env = EmptyDict
    /\ MainIdle

CallGenerateReportData ==
    /\ call = "idle"
    /\ call' = "generate_report_data"
    /\ ret' = Return(GenerateReportData(arg.findings, arg.repository_url,
                                        arg.commit_sha, arg.now))
    /\ UNCHANGED <<arg, mainVars>>

SpecReport == InitReport /\ [][CallGenerateReportData]_vars

-----------------------------------------------------------------------------
(* The generator: constructed on a template path, then its methods called *)

TemplatePaths ==
    {Missing, Directory, Unreadable, File(GoodTemplate),
     File(BrokenSyntaxTemplate), File(UndefinedCallTemplate)}

InputPaths == {Missing, Directory, Unreadable} \cup {File(t) : t \in JsonTexts}

OutputTargets == {"writable", "unwritable", "disk_full"}

Clock == "2026-01-01 00:00:00 UTC"

WellFormedFindings ==
    {BuildFinding(SarifFull).value, BuildFinding(EmptyDict).value}

\* report data: what generate_report_data assembles, and data that lacks
\* variables the template reads
RenderInputs ==
    {GenerateReportData(fs, "Unknown", "Unknown", Clock) :
        fs \in SeqsUpTo(WellFormedFindings, 2)}
    \cup {EmptyDict,
          [total_findings |-> 12, findings |-> <<>>],
          [total_findings |-> 1, findings |-> <<[rule_id |-> "rule-x"]>>],
          [total_findings |-> 2,
           findings |-> <<BuildFinding(SarifFull).value, [rule_id |-> "rule-x"]>>]}

\* documents generate_html returns: rendered ones and the error document
HtmlDocuments ==
    {RenderFallback(d).value : d \in {x \in RenderInputs : "scan_date" \in DOMAIN x}}
    \cup {ErrorHtml("UndefinedError")}

InitGenerator ==
    /\ call = "idle" /\ arg = EmptyDict /\ ret = NoOutcome
    /\ env \in [template : TemplatePaths]
    /\ MainIdle

Constructed == "template" \in DOMAIN generator

New ==
    /\ call = "idle"
    /\ call' = "__init__"
    /\ arg' = env.template
    /\ ret' = Construct(env.template)
    /\ generator' = IF ret'.raised THEN generator ELSE ret'.value
    /\ UNCHANGED <<pc, env, semgrep_data, findings, report_data, html_content,
                   output_file, stages, exit_status>>

CallParseSemgrepOutput ==
    /\ Constructed
    /\ \E path \in InputPaths :
          /\ arg' = path
          /\ ret' = ParseSemgrepOutput(path)
    /\ call' = "parse_semgrep_output"
    /\ UNCHANGED mainVars

CallGenerateHtml ==
    /\ Constructed
    /\ \E data \in RenderInputs :
          /\ arg' = data
          /\ ret' = GenerateHtml(generator.template, data)
    /\ call' = "generate_html"
    /\ UNCHANGED mainVars

CallSaveReport ==
    /\ Constructed
    /\ \E html \in HtmlDocuments, target \in OutputTargets :
          LET saved == SaveReport(html, target, output_file)
          IN /\ arg' = [html_content |-> html, target |-> target]
             /\ ret' = Return(saved.returned)
             /\ output_file' = saved.file
    /\ call' = "save_report"
    /\ UNCHANGED <<pc, env, generator, semgrep_data, findings, report_data,
                   html_content, stages, exit_status>>

NextGenerator ==
    \/ New
    \/ CallParseSemgrepOutput
    \/ CallGenerateHtml
    \/ CallSaveReport

SpecGenerator == InitGenerator /\ [][NextGenerator]_vars

-----------------------------------------------------------------------------
(* main(): one run of the entry point *)

ArgumentVectors ==
    {SubSeq(<<"semgrep-results.json", "report.html",
              "https://example.org/repo.git", "abc123">>, 1, n) : n \in 0..4}

MainEnvs ==
    [argv : ArgumentVectors, template : TemplatePaths, input : InputPaths,
     output : OutputTargets]

InitMain ==
    /\ call = "main" /\ arg = EmptyDict /\ ret = NoOutcome
    /\ env \in MainEnvs
    /\ pc = "usage"
    /\ generator = EmptyDict
    /\ semgrep_data = EmptyDict
    /\ findings = <<>>
    /\ report_data = EmptyDict
    /\ html_content = EmptyDict
    /\ output_file = NotWritten
    /\ stages = <<>>
    /\ exit_status = -1

\* sys.exit(status)
Exit(status) ==
    /\ pc' = "exited"
    /\ exit_status' = status

\* an exception nothing catches: the traceback, then exit status 1
Uncaught(outcome) ==
    /\ pc' = "uncaught"
    /\ ret' = outcome
    /\ exit_status' = 1

\* len(sys.argv) < 3, the program name not counted in env.argv
TooFewArguments(argv) == Len(argv) + 1 < 3

\* os.path.exists(json_file)
PathExists(path) == path.state # "missing"

\* A slip that would let empty data through.
NeverEmpty(data) == FALSE

\* not semgrep_data
IsEmptyData(data) == DOMAIN data = {}

\* lines 181-189
MainUsage ==
    /\ pc = "usage"
    /\ IF TooFewArguments(env.argv) THEN Exit(1)
       ELSE pc' = "exists" /\ UNCHANGED exit_status
    /\ UNCHANGED <<call, arg, ret, env, generator, semgrep_data, findings,
                   report_data, html_content, output_file, stages>>

\* lines 192-194
MainInputExists ==
    /\ pc = "exists"
    /\ IF ~PathExists(env.input) THEN Exit(1)
       ELSE pc' = "construct" /\ UNCHANGED exit_status
    /\ UNCHANGED <<call, arg, ret, env, generator, semgrep_data, findings,
                   report_data, html_content, output_file, stages>>

\* line 197
MainConstruct ==
    /\ pc = "construct"
    /\ LET g == Construct(env.template) IN
       IF g.raised
       THEN Uncaught(g) /\ UNCHANGED generator
       ELSE /\ generator' = g.value
            /\ pc' = "parse"
            /\ UNCHANGED <<ret, exit_status>>
    /\ UNCHANGED <<call, arg, env, semgrep_data, findings, report_data,
                   html_content, output_file, stages>>

\* line 201
MainParse ==
    /\ pc = "parse"
    /\ stages' = Append(stages, "parse")
    /\ LET d == ParseSemgrepOutput(env.input) IN
       IF d.raised
       THEN Uncaught(d) /\ UNCHANGED semgrep_data
       ELSE /\ semgrep_data' = d.value
            /\ pc' = "validate"
            /\ UNCHANGED <<ret, exit_status>>
    /\ UNCHANGED <<call, arg, env, generator, findings, report_data,
                   html_content, output_file>>

\* lines 203-205
MainValidate ==
    /\ pc = "validate"
    /\ stages' = Append(stages, "validate")
    /\ IF IsEmptyData(semgrep_data) THEN Exit(1)
       ELSE pc' = "extract" /\ UNCHANGED exit_status
    /\ UNCHANGED <<call, arg, ret, env, generator, semgrep_data, findings,
                   report_data, html_content, output_file>>

\* line 209
MainExtract ==
    /\ pc = "extract"
    /\ stages' = Append(stages, "extract")
    /\ LET f == ExtractFindings(semgrep_data) IN
       IF f.raised
       THEN Uncaught(f) /\ UNCHANGED findings
       ELSE /\ findings' = f.value
            /\ pc' = "assemble"
            /\ UNCHANGED <<ret, exit_status>>
    /\ UNCHANGED <<call, arg, env, generator, semgrep_data, report_data,
                   html_content, output_file>>

\* lines 188-189
RepositoryUrl(argv) == IF Len(argv) + 1 > 3 THEN argv[3] ELSE "Unknown"

CommitSha(argv) == IF Len(argv) + 1 > 4 THEN argv[4] ELSE "Unknown"

\* line 214
MainAssemble ==
    /\ pc = "assemble"
    /\ stages' = Append(stages, "assemble")
    /\ report_data' = GenerateReportData(findings, RepositoryUrl(env.argv),
                                         CommitSha(env.argv), Clock)
    /\ pc' = "render"
    /\ UNCHANGED <<call, arg, ret, env, generator, semgrep_data, findings,
                   html_content, output_file, exit_status>>

\* line 218
MainRender ==
    /\ pc = "render"
    /\ stages' = Append(stages, "render")
    /\ html_content' = GenerateHtml(generator.template, report_data).value
    /\ pc' = "save"
    /\ UNCHANGED <<call, arg, ret, env, generator, semgrep_data, findings,
                   report_data, output_file, exit_status>>

\* lines 222-231: falling off the end of main() is exit status 0
MainSave ==
    /\ pc = "save"
    /\ stages' = Append(stages, "save")
    /\ LET saved == SaveReport(html_content, env.output, output_file) IN
       /\ output_file' = saved.file
       /\ Exit(IF saved.returned THEN 0 ELSE 1)
    /\ UNCHANGED <<call, arg, ret, env, generator, semgrep_data, findings,
                   report_data, html_content>>

NextMain ==
    \/ MainUsage
    \/ MainInputExists
    \/ MainConstruct
    \/ MainParse
    \/ MainValidate
    \/ MainExtract
    \/ MainAssemble
    \/ MainRender
    \/ MainSave

SpecMain == InitMain /\ [][NextMain]_vars

\* the runs whose template path and input path can be opened or are missing
InitMainReadable ==
    /\ InitMain
    /\ env.template.state \in {"missing", "file"}
    /\ env.template.text # BrokenSyntaxTemplate
    /\ env.input.state \in {"missing", "file"}

SpecMainReadable == InitMainReadable /\ [][NextMain]_vars

-----------------------------------------------------------------------------
(* Properties of extract_findings *)

RECURSIVE Concat(_)
Concat(ss) == IF Len(ss) = 0 THEN <<>> ELSE Head(ss) \o Concat(Tail(ss))

\* the results of an input object, run after run
AllResults(data) ==
    LET runs == Get(data, "runs", <<>>) IN
    Concat([i \in 1..Len(runs) |-> Get(runs[i], "results", <<>>)])

ExtractReturned == call = "extract_findings" /\ ~ret.raised

\* C1: for an input object with a runs list extract_findings returns one
\* Finding per entry of every run's results, in run-major, result-minor
\* order; for an empty object or one without runs it returns the empty
\* sequence.
OneFindingPerResult ==
    call = "extract_findings" =>
        /\ ~ret.raised
        /\ Len(ret.value) = Len(AllResults(arg))
        /\ \A i \in 1..Len(ret.value) :
              ret.value[i].rule_id = Get(AllResults(arg)[i], "ruleId", "Unknown Rule")

\* the get-or-default walk of a chain of keys: the first element of the
\* locations list when there is one, and an absent link otherwise
FirstLocationOrAbsent(result) ==
    LET locations == Get(result, "locations", <<>>) IN
    IF Len(locations) = 0 THEN EmptyDict ELSE locations[1]

WalkLocation(result, container, key, default) ==
    Get(Get(Get(FirstLocationOrAbsent(result), "physicalLocation", EmptyDict),
            container, EmptyDict), key, default)

DefaultsSubstituted(finding, result) ==
    /\ finding.message = Get(Get(result, "message", EmptyDict), "text", "No message")
    /\ finding.path = WalkLocation(result, "artifactLocation", "uri", "Unknown file")
    /\ finding.start.line = WalkLocation(result, "region", "startLine", 0)
    /\ finding.start.column = WalkLocation(result, "region", "startColumn", 0)
    /\ finding.end.line = WalkLocation(result, "region", "endLine", 0)
    /\ finding.end.column = WalkLocation(result, "region", "endColumn", 0)

\* C2: whichever level of a nested lookup chain is absent (an empty
\* locations list included), extract_findings does not fail and the field
\* takes its documented default.
AbsentLevelsTakeDefaults ==
    call = "extract_findings" =>
        /\ ~ret.raised
        /\ \A i \in 1..Len(ret.value) :
              DefaultsSubstituted(ret.value[i], AllResults(arg)[i])

\* What the code does keep of C1 and C2: whenever it returns, the findings
\* are those of the results in order, with the defaults substituted.
ReturnedFindingsFollowResults ==
    ExtractReturned =>
        /\ Len(ret.value) = Len(AllResults(arg))
        /\ \A i \in 1..Len(ret.value) :
              /\ ret.value[i].rule_id = Get(AllResults(arg)[i], "ruleId", "Unknown Rule")
              /\ DefaultsSubstituted(ret.value[i], AllResults(arg)[i])

\* ... and it raises exactly when some result has an empty locations list.
RaisesOnlyOnEmptyLocations ==
    call = "extract_findings" =>
        (ret.raised <=>
            \E i \in 1..Len(AllResults(arg)) :
                /\ "locations" \in DOMAIN AllResults(arg)[i]
                /\ Len(AllResults(arg)[i]["locations"]) = 0)

AllDefaultsFinding ==
    [rule_id |-> "Unknown Rule",
     message |-> "No message",
     level   |-> <<"N","O","T","E">>,
     path    |-> "Unknown file",
     start   |-> [line |-> 0, column |-> 0],
     end     |-> [line |-> 0, column |-> 0],
     code    |-> None,
     tags    |-> <<>>]

\* the upper-cased form of the levels the inputs use
UpperCased(level) ==
    CASE level = <<"e","r","r","o","r">> -> <<"E","R","R","O","R">>
      [] level = <<"H","i","g","h">>     -> <<"H","I","G","H">>

\* C10: a result with every optional field absent yields exactly the
\* documented defaults, and every stored level is the upper-cased form of
\* the result's level.
DefaultsAndUpperCasedLevel ==
    ExtractReturned =>
        \A i \in 1..Len(ret.value) :
            LET result == AllResults(arg)[i] IN
            /\ result = EmptyDict => ret.value[i] = AllDefaultsFinding
            /\ "level" \in DOMAIN result =>
                  ret.value[i].level = UpperCased(result["level"])

AllAbsentResultExtracted ==
    /\ ExtractReturned
    /\ arg = [runs |-> <<[results |-> <<EmptyDict>>]>>]
    /\ Len(ret.value) = 1

-----------------------------------------------------------------------------
(* Properties of _extract_code_snippet *)

\* every location of the structure, in traversal order
TraversalLocations(result) ==
    LET flows == Get(result, "codeFlows", <<>>)
        ThreadLocations(flow) ==
            LET threads == Get(flow, "threadFlows", <<>>) IN
            Concat([j \in 1..Len(threads) |-> Get(threads[j], "locations", <<>>)])
    IN Concat([i \in 1..Len(flows) |-> ThreadLocations(flows[i])])

CarriesSnippet(location) ==
    /\ "location" \in DOMAIN location
    /\ "snippet" \in DOMAIN location["location"]

CarriesText(location) ==
    /\ CarriesSnippet(location)
    /\ "text" \in DOMAIN location["location"]["snippet"]

SnippetCalled == call = "_extract_code_snippet"

\* C3 as stated: the result is the first snippet text of the traversal, and
\* none only when no location carries a text; a snippet without text neither
\* ends the search nor produces a result.
FirstSnippetTextReturned ==
    SnippetCalled =>
        LET locs == TraversalLocations(arg)
            hits == {i \in 1..Len(locs) : CarriesText(locs[i])}
        IN IF hits = {} THEN ret.value = None
           ELSE LET first == CHOOSE i \in hits : \A j \in hits : i <= j
                IN ret.value = Some(locs[first]["location"]["snippet"]["text"])

\* C3 as the code has it: the search ends at the first location that carries
\* a snippet; the result is that snippet's text, or the empty string when it
\* has none; the result is none only when no location carries a snippet.
FirstSnippetReturned ==
    SnippetCalled =>
        LET locs == TraversalLocations(arg)
            hits == {i \in 1..Len(locs) : CarriesSnippet(locs[i])}
        IN /\ IF hits = {} THEN ret.value = None
              ELSE LET first == CHOOSE i \in hits : \A j \in hits : i <= j
                   IN ret.value =
                        Some(Get(locs[first]["location"]["snippet"], "text", ""))
           /\ (Len(Get(arg, "codeFlows", <<>>)) = 2
               /\ TraversalLocations([codeFlows |-> <<arg["codeFlows"][1]>>]) = <<>>
               /\ TraversalLocations([codeFlows |-> <<arg["codeFlows"][2]>>])
                    = <<[location |-> [snippet |-> [text |-> "A"]]]>>)
              => ret.value = Some("A")

SecondFlowSnippetFound ==
    /\ SnippetCalled
    /\ Len(Get(arg, "codeFlows", <<>>)) = 2
    /\ ~ \E i \in 1..Len(TraversalLocations([codeFlows |-> <<arg["codeFlows"][1]>>])) :
            CarriesSnippet(TraversalLocations([codeFlows |-> <<arg["codeFlows"][1]>>])[i])
    /\ ret.value = Some("A")

-----------------------------------------------------------------------------
(* Properties of generate_report_data *)

\* the severity bucket, if any, of each level the inputs use
Bucket(level) ==
    CASE level \in {<<"H","I","G","H">>, <<"h","i","g","h">>} -> "high"
      [] level = <<"M","e","d","i","u","m">>                   -> "medium"
      [] level = <<"L","O","W">>                               -> "low"
      [] level = <<"I","N","F","O">>                           -> "info"
      [] OTHER                                                 -> "none"

NumberIn(fs, bucket) ==
    Cardinality({i \in 1..Len(fs) : Bucket(fs[i].level) = bucket})

CounterSum(data) ==
    data.high_severity_count + data.medium_severity_count
        + data.low_severity_count + data.info_severity_count

ReportCalled == call = "generate_report_data"

\* C4: total_findings is the length of findings, findings is the input
\* sequence, each counter is the number of findings whose lowered level is
\* its bucket, so the counters sum to at most the total and to less exactly
\* when some level is outside the four; HIGH, high, Medium, bogus give
\* high 2, medium 1, low 0, info 0, total 4.
SeverityCountersCount ==
    ReportCalled =>
        LET data == ret.value  fs == arg.findings IN
        /\ data.total_findings = Len(fs)
        /\ data.findings = fs
        /\ data.high_severity_count = NumberIn(fs, "high")
        /\ data.medium_severity_count = NumberIn(fs, "medium")
        /\ data.low_severity_count = NumberIn(fs, "low")
        /\ data.info_severity_count = NumberIn(fs, "info")
        /\ CounterSum(data) <= data.total_findings
        /\ CounterSum(data) < data.total_findings <=> NumberIn(fs, "none") > 0
        /\ [i \in 1..Len(fs) |-> fs[i].level]
              = <<<<"H","I","G","H">>, <<"h","i","g","h">>,
                  <<"M","e","d","i","u","m">>, <<"b","o","g","u","s">>>>
           => /\ data.high_severity_count = 2
              /\ data.medium_severity_count = 1
              /\ data.low_severity_count = 0
              /\ data.info_severity_count = 0
              /\ data.total_findings = 4

MixedLevelsCounted ==
    /\ ReportCalled
    /\ [i \in 1..Len(arg.findings) |-> arg.findings[i].level]
          = <<<<"H","I","G","H">>, <<"h","i","g","h">>,
              <<"M","e","d","i","u","m">>, <<"b","o","g","u","s">>>>
    /\ ret.value.high_severity_count = 2

-----------------------------------------------------------------------------
(* Properties of the generator's construction and rendering *)

CannotBeOpened(path) == path.state \in {"missing", "directory", "unreadable"}

\* report data as generate_report_data assembles it
Assembled(data) == "scan_date" \in DOMAIN data

\* the decimal literal of the finding counts the inputs reach
CountLiteral(n) == <<"0", "1", "2">>[n + 1]

FallbackRendered(html, data) ==
    /\ "error" \notin DOMAIN html
    /\ html.total = CountLiteral(Len(data.findings))
    /\ Len(html.divs) = Len(data.findings)

\* C5 as stated: constructing on a template path that is missing or
\* otherwise inaccessible (permission denied, a directory) does not fail and
\* leaves the built-in fallback template, and rendering with it succeeds and
\* contains the literal finding count.
InaccessibleTemplateFallsBack ==
    (call # "idle" /\ CannotBeOpened(env.template)) =>
        /\ Constructed
        /\ generator.template.source = FallbackHtml
        /\ (call = "generate_html" /\ Assembled(arg))
              => FallbackRendered(ret.value, arg)

\* C5 as the code has it: a missing template path does not fail the
\* construction and leaves the fallback template, with which rendering
\* succeeds and contains the literal finding count; a path that exists but
\* cannot be opened fails the construction with the error of the open.
MissingTemplateFallsBack ==
    /\ (call # "idle" /\ env.template.state = "missing") =>
          /\ Constructed
          /\ generator.template.source = FallbackHtml
          /\ (call = "generate_html" /\ Assembled(arg))
                => FallbackRendered(ret.value, arg)
    /\ (call # "idle" /\ env.template.state \in {"directory", "unreadable"}) =>
          /\ ~Constructed
          /\ call = "__init__"
          /\ ret.raised
          /\ ret.exc \in {"IsADirectoryError", "PermissionError"}

FallbackRenderedTwoFindings ==
    /\ call = "generate_html"
    /\ env.template.state = "missing"
    /\ Assembled(arg)
    /\ Len(arg.findings) = 2
    /\ ret.value.total = "2"

\* rendering fails when the template calls what is not defined, or reads an
\* attribute of a finding field that is not there
RenderingFails(template, data) ==
    \/ template.source = UndefinedCallTemplate
    \/ /\ template.source = FallbackHtml
       /\ \E i \in 1..Len(Get(data, "findings", <<>>)) :
             ~ {"level", "start"} \subseteq DOMAIN data.findings[i]

\* C9: generate_html never raises and returns a document for any report
\* data: the rendered text when rendering succeeds, and the minimal error
\* document with the error's description when it fails.
GenerateHtmlAlwaysReturns ==
    call = "generate_html" =>
        /\ ~ret.raised
        /\ IF RenderingFails(generator.template, arg)
           THEN ret.value = [error |-> "Error generating report",
                             description |-> "UndefinedError"]
           ELSE /\ "error" \notin DOMAIN ret.value
                /\ ret.value = Render(generator.template, arg).value

RenderFailureReturned ==
    /\ call = "generate_html"
    /\ RenderingFails(generator.template, arg)
    /\ ~ret.raised
    /\ "error" \in DOMAIN ret.value

-----------------------------------------------------------------------------
(* Properties of main() *)

PipelineStages == <<"parse", "validate", "extract", "assemble", "render", "save">>

Finished == exit_status # -1

MissingArguments == Len(env.argv) < 2

InputMissing == env.input.state = "missing"

\* parsing yields empty or unparseable data
NoData ==
    /\ env.input.state = "file"
    /\ env.input.text \in {EmptyObjectText, TruncatedText, ""}

SaveFails == env.output # "writable"

\* C6: every run ends with exit status 0 or 1 and never with an uncaught
\* failure; status 1 exactly when arguments are missing, the input file does
\* not exist, parsing yields no data or save_report returns false, and
\* status 0 exactly when all of those checks pass.
ExitStatusReflectsChecks ==
    Finished =>
        /\ pc = "exited"
        /\ exit_status \in {0, 1}
        /\ exit_status = 1 <=>
              (MissingArguments \/ InputMissing \/ NoData \/ SaveFails)

\* What the code keeps of C6 when the template and input paths can be
\* opened or are missing: the same, for the runs in which extract_findings
\* does not raise.
ExitStatusUnlessExtractRaises ==
    (Finished /\ ~(pc = "uncaught" /\ ret.exc = "IndexError")) =>
        /\ pc = "exited"
        /\ exit_status \in {0, 1}
        /\ exit_status = 1 <=>
              (MissingArguments \/ InputMissing \/ NoData \/ SaveFails)

\* C7: the stages run in the order parse, validate, extract, assemble,
\* render, save, each at most once; the output file is written in the save
\* stage alone, so a run that stops for missing arguments, a missing input
\* file or empty parsed data leaves the output file untouched.
StagesInOrderAndOutputOnlySaved ==
    /\ stages = SubSeq(PipelineStages, 1, Len(stages))
    /\ output_file # NotWritten => stages = PipelineStages
    /\ (MissingArguments \/ InputMissing
            \/ (Len(stages) >= 2 /\ DOMAIN semgrep_data = {}))
          => output_file = NotWritten

WholePipelineRun ==
    /\ pc = "exited"
    /\ exit_status = 0
    /\ stages = PipelineStages
    /\ output_file # NotWritten

=============================================================================
